---- MODULE Spec2Model ----
(***************************************************************************)
(* BookMyTrip chat bot: the Lambda function that validates and fulfils the *)
(* BookHotel intent (book_my_trip_lambda.py, validator_methods.py).        *)
(*                                                                         *)
(* Python values are tagged records: None, str (a sequence of one-letter   *)
(* strings) and int.  A dict is a function whose DOMAIN is its key set.    *)
(* A call either returns a value or raises; a raised exception is the      *)
(* record [raise |-> <exception name>].                                    *)
(***************************************************************************)
EXTENDS Integers, Sequences, FiniteSets, TLC

VARIABLES
    today,   \* what datetime.date.today() returns: a day number
    event,   \* the request object as it is in memory (the handler mutates it)
    call,    \* the last call: the request as handed in, the date, the result
    prev,    \* the call before the last one
    calls    \* how many calls were made

vars == <<today, event, call, prev, calls>>

---------------------------------------------------------------------------
\* Bounds of the model.

\* days run from 1 to MaxDay; check-in dates from 1 to MaxDay + 1
MaxDay == 2
\* calls made in one run
MaxCalls == 2
\* the integers tried for Nights run from -2 to NightsTried
NightsTried == 32

---------------------------------------------------------------------------
\* Python values.

None == [t |-> "None"]
PyStr(s) == [t |-> "str", v |-> s]
PyInt(n) == [t |-> "int", v |-> n]
PyDate(day) == [t |-> "date", v |-> day]
Raise(exc) == [raise |-> exc]
Raised(r) == "raise" \in DOMAIN r

\* Python truth value testing: None, "" and 0 are false.
Truthy(x) ==
    CASE x.t = "None" -> FALSE
      [] x.t = "str"  -> Len(x.v) > 0
      [] x.t = "int"  -> x.v # 0

Alphabet == <<"a","b","c","d","e","f","g","h","i","j","k","l","m","n","o","p","q","r","s","t","u","v","w","x","y","z">>
Capitals == <<"A","B","C","D","E","F","G","H","I","J","K","L","M","N","O","P","Q","R","S","T","U","V","W","X","Y","Z">>
Digits == <<"0","1","2","3","4","5","6","7","8","9">>

Occurs(seq, c) == \E i \in 1..Len(seq) : seq[i] = c
IndexIn(seq, c) == CHOOSE i \in 1..Len(seq) : seq[i] = c

\* ord(c) for the characters of the model: letters, digits and the space.
ord(c) ==
    IF Occurs(Alphabet, c) THEN 96 + IndexIn(Alphabet, c)
    ELSE IF Occurs(Capitals, c) THEN 64 + IndexIn(Capitals, c)
    ELSE IF Occurs(Digits, c) THEN 47 + IndexIn(Digits, c)
    ELSE 32

\* str.lower() on the characters of a string.
lower(s) ==
    [i \in 1..Len(s) |->
        IF Occurs(Capitals, s[i]) THEN Alphabet[IndexIn(Capitals, s[i])] ELSE s[i]]

RECURSIVE DigitsValue(_)
DigitsValue(ds) ==
    IF ds = <<>> THEN 0
    ELSE 10 * DigitsValue(SubSeq(ds, 1, Len(ds) - 1)) + (IndexIn(Digits, ds[Len(ds)]) - 1)

\* int(n) of an int or of a decimal string (a SlotSet's Nights passes this
\* coercion, so the ValueError of a non-numeric string is not in the model).
int(n) ==
    IF n.t = "int" THEN n
    ELSE IF Head(n.v) = "-" THEN PyInt(0 - DigitsValue(Tail(n.v)))
    ELSE PyInt(DigitsValue(n.v))

safe_int_none_as_zero(n) == IF n # None THEN int(n) ELSE PyInt(0)

safe_int(n) == IF n # None THEN int(n) ELSE n

---------------------------------------------------------------------------
\* validator_methods.py

valid_cities ==
    <<
       <<"n","e","w"," ","y","o","r","k">>,
       <<"l","o","s"," ","a","n","g","e","l","e","s">>,
       <<"c","h","i","c","a","g","o">>,
       <<"h","o","u","s","t","o","n">>,
       <<"p","h","i","l","a","d","e","l","p","h","i","a">>,
       <<"p","h","o","e","n","i","x">>,
       <<"s","a","n"," ","a","n","t","o","n","i","o">>,
       <<"s","a","n"," ","d","i","e","g","o">>,
       <<"d","a","l","l","a","s">>,
       <<"s","a","n"," ","j","o","s","e">>,
       <<"a","u","s","t","i","n">>,
       <<"j","a","c","k","s","o","n","v","i","l","l","e">>,
       <<"s","a","n"," ","f","r","a","n","c","i","s","c","o">>,
       <<"i","n","d","i","a","n","a","p","o","l","i","s">>,
       <<"c","o","l","u","m","b","u","s">>,
       <<"f","o","r","t"," ","w","o","r","t","h">>,
       <<"c","h","a","r","l","o","t","t","e">>,
       <<"d","e","t","r","o","i","t">>,
       <<"e","l"," ","p","a","s","o">>,
       <<"s","e","a","t","t","l","e">>,
       <<"d","e","n","v","e","r">>,
       <<"w","a","s","h","i","n","g","t","o","n"," ","d","c">>,
       <<"m","e","m","p","h","i","s">>,
       <<"b","o","s","t","o","n">>,
       <<"n","a","s","h","v","i","l","l","e">>,
       <<"b","a","l","t","i","m","o","r","e">>,
       <<"p","o","r","t","l","a","n","d">> 
    >>

room_types == << <<"q","u","e","e","n">>, <<"k","i","n","g">>, <<"d","e","l","u","x","e">> >>

isvalid_city(city) == Occurs(valid_cities, lower(city.v))

isvalid_room_type(room_type) == Occurs(room_types, lower(room_type.v))

\* The text of a date is kept as <<how it is written, the day it names>>:
\*   "Y-m-d"  written as YYYY-MM-DD,
\*   "other"  a date in another notation ("Nov 8 2030", "2030-11"),
\*   "junk"   no date at all.
DateText(form, day) == PyStr(<<form, day>>)

\* dateutil.parser.parse(date): the day, or ValueError for a text that is no date.
dateutil_parse(date) ==
    IF date.v[1] = "junk" THEN Raise("ValueError") ELSE PyDate(date.v[2])

isvalid_date(date) == ~Raised(dateutil_parse(date))

\* datetime.datetime.strptime(date, '%Y-%m-%d').date()
strptime_Ymd(date) ==
    IF date.v[1] = "Y-m-d" THEN PyDate(date.v[2]) ELSE Raise("ValueError")

\* datetime.date.today()
date_today == PyDate(today)

---------------------------------------------------------------------------
\* Dictionaries (sessionAttributes, slots).

EmptyDict == [k \in {} |-> None]

dict_set(d, key, value) ==
    [k \in DOMAIN d \cup {key} |-> IF k = key THEN value ELSE d[k]]

\* d.pop(key): the dictionary without the key, or KeyError when it is absent.
dict_pop(d, key) ==
    IF key \in DOMAIN d THEN [k \in DOMAIN d \ {key} |-> d[k]] ELSE Raise("KeyError")

\* json.dumps of a dictionary: the text, kept as the object it spells.
json_dumps(obj) == [t |-> "json", v |-> obj]

---------------------------------------------------------------------------
\* response_methods.py: the three directives.

elicit_slot(session_attributes, intent_name, slots, slot_to_elicit, message) ==
    [sessionAttributes |-> session_attributes,
     dialogAction |-> [type |-> "ElicitSlot",
                       intentName |-> intent_name,
                       slots |-> slots,
                       slotToElicit |-> slot_to_elicit,
                       message |-> message]]

delegate(session_attributes, slots) ==
    [sessionAttributes |-> session_attributes,
     dialogAction |-> [type |-> "Delegate", slots |-> slots]]

close(session_attributes, fulfillment_state, message) ==
    [sessionAttributes |-> session_attributes,
     dialogAction |-> [type |-> "Close",
                       fulfillmentState |-> fulfillment_state,
                       message |-> message]]

---------------------------------------------------------------------------
\* book_my_trip_lambda.py

build_validation_result_without_slot(isvalid, violated_slot, message_content) ==
    [isValid |-> isvalid,
     message |-> [contentType |-> "PlainText", content |-> message_content]]

build_validation_result(isvalid, violated_slot, message_content) ==
    [isValid |-> isvalid,
     violatedSlot |-> violated_slot,
     message |-> [contentType |-> "PlainText", content |-> message_content]]

RECURSIVE cost_of_living_from(_, _)
cost_of_living_from(location, i) ==
    IF i > Len(location.v) THEN 0
    ELSE (ord(lower(location.v)[i]) - 97) + cost_of_living_from(location, i + 1)

cost_of_living_no_lower(location) ==
    LET RECURSIVE from(_)
        from(i) == IF i > Len(location.v) THEN 0
                   ELSE (ord(location.v[i]) - 97) + from(i + 1)
    IN from(1)

\* the loop of generate_hotel_price
cost_of_living(location) == cost_of_living_from(location, 1)

\* The estimate added to the price of the turn before.
generate_hotel_price_on_top_of_last(location, nights, room_type) ==
    LET last == IF "response" \in DOMAIN call
                    /\ "sessionAttributes" \in DOMAIN call.response
                    /\ "currentReservationPrice" \in DOMAIN call.response.sessionAttributes
                THEN call.response.sessionAttributes["currentReservationPrice"].v
                ELSE 0
    IN  PyInt(last + nights.v * (100 + cost_of_living(location)
                                 + (100 + (IndexIn(room_types, lower(room_type.v)) - 1))))

generate_hotel_price(location, nights, room_type) ==
    IF ~Occurs(room_types, lower(room_type.v))
    THEN Raise("ValueError")   \* room_types.index of a value not in the list
    ELSE PyInt(nights.v * (100 + cost_of_living(location)
                           + (100 + (IndexIn(room_types, lower(room_type.v)) - 1))))

nights_out_of_range_above_30_only(nights) == nights.v > 30

\* nights < 1 or nights > 30
nights_out_of_range(nights) == nights.v < 1 \/ nights.v > 30

validate_hotel(slots) ==
    LET location == slots.Location
        checkin_date == slots.CheckInDate
        nights == safe_int(slots.Nights)
        room_type == slots.RoomType
    IN  IF Truthy(location) /\ ~isvalid_city(location)
        THEN build_validation_result(FALSE, "Location",
                 <<"We currently do not support ", location.v,
                   " as a valid destination. Can you try a different city?">>)
        ELSE IF Truthy(checkin_date) /\ ~isvalid_date(checkin_date)
        THEN build_validation_result(FALSE, "CheckInDate",
                 <<"I did not understand your check in date. When would you like to check in?">>)
        ELSE IF Truthy(checkin_date) /\ Raised(strptime_Ymd(checkin_date))
        THEN strptime_Ymd(checkin_date)   \* the ValueError leaves validate_hotel
        ELSE IF Truthy(checkin_date) /\ strptime_Ymd(checkin_date).v <= date_today.v
        THEN build_validation_result(FALSE, "CheckInDate",
                 <<"Reservations must be scheduled at least one day in advance. Can you try a different date?">>)
        ELSE IF nights # None /\ nights_out_of_range(nights)
        THEN build_validation_result(FALSE, "Nights",
                 <<"You can make a reservations for from one to thirty nights. How many nights would you like to stay for?">>)
        ELSE IF Truthy(room_type) /\ ~isvalid_room_type(room_type)
        THEN build_validation_result(FALSE, "RoomType",
                 <<"I did not recognize that room type. Would you like to stay in a queen, king, or deluxe room?">>)
        ELSE [isValid |-> TRUE]

\* slot_details[key] if key in slot_details.keys() else None
slot_or_none(slot_details, key) ==
    IF key \in DOMAIN slot_details THEN slot_details[key] ELSE None

\* The session dictionary kept in a module-level variable, set by the first
\* call that brings one: later calls go on with what that request object holds.
session_attributes_kept_at_module_level(intent_request) ==
    IF "sessionAttributes" \in DOMAIN event /\ event.sessionAttributes # None
    THEN event.sessionAttributes
    ELSE IF intent_request.sessionAttributes # None THEN intent_request.sessionAttributes
    ELSE EmptyDict

\* Every turn starts from an empty session dictionary.
session_attributes_started_afresh(intent_request) == EmptyDict

\* intent_request['sessionAttributes'] if it is not None else {}
session_attributes_of(intent_request) ==
    IF intent_request.sessionAttributes # None THEN intent_request.sessionAttributes
    ELSE EmptyDict

slots_left_as_they_are(slots, violated_slot) == slots

\* slots[validation_result['violatedSlot']] = None
clear_violated_slot(slots, violated_slot) ==
    [slots EXCEPT ![violated_slot] = None]

all_slots_not_none(location, checkin_date, nights, room_type) ==
    location # None /\ checkin_date # None /\ nights # None /\ room_type # None

\* if location and checkin_date and nights and room_type
all_slots_given(location, checkin_date, nights, room_type) ==
    Truthy(location) /\ Truthy(checkin_date) /\ Truthy(nights) /\ Truthy(room_type)

\* try: pop('currentReservationPrice') except: print(...)
drop_price(session_attributes) ==
    LET popped == dict_pop(session_attributes, "currentReservationPrice")
    IN  IF Raised(popped) THEN session_attributes ELSE popped

\* try: pop('currentReservationPrice'); pop('currentReservation') except: print(...)
\* The first KeyError ends the try block: the second pop is then not run.
drop_price_and_reservation(session_attributes) ==
    LET first == dict_pop(session_attributes, "currentReservationPrice")
    IN  IF Raised(first) THEN session_attributes
        ELSE LET second == dict_pop(first, "currentReservation")
             IN  IF Raised(second) THEN first ELSE second

\* The request object after the call: the handler writes into the dictionaries
\* the request holds.  A request whose sessionAttributes is None keeps None (the
\* handler's dictionary is a new one).
request_after(intent_request, session_attributes, slots) ==
    [intent_request EXCEPT
        !.sessionAttributes =
            IF intent_request.sessionAttributes # None THEN session_attributes ELSE None,
        !.currentIntent.slots = slots]

\* book_hotel: what it returns (or raises) and the request object it leaves.
book_hotel(intent_request) ==
    LET slot_details == intent_request.currentIntent.slots
        location == slot_or_none(slot_details, "Location")
        checkin_date == slot_or_none(slot_details, "CheckInDate")
        nights == safe_int(slot_or_none(slot_details, "Nights"))
        room_type == slot_or_none(slot_details, "RoomType")
        reservation == json_dumps([ReservationType |-> "Hotel",
                                   Location |-> location,
                                   RoomType |-> room_type,
                                   CheckInDate |-> checkin_date,
                                   Nights |-> nights])
        session_attributes ==
            dict_set(session_attributes_of(intent_request), "currentReservation", reservation)
    IN  IF intent_request.invocationSource = "DialogCodeHook"
        THEN LET validation_result == validate_hotel(slot_details)
             IN  IF Raised(validation_result)
                 THEN [response |-> validation_result,
                       request |-> request_after(intent_request, session_attributes, slot_details)]
                 ELSE IF ~validation_result.isValid
                 THEN LET slots == clear_violated_slot(slot_details, validation_result.violatedSlot)
                      IN  [response |-> elicit_slot(session_attributes,
                                                    intent_request.currentIntent.name,
                                                    slots,
                                                    validation_result.violatedSlot,
                                                    validation_result.message),
                           request |-> request_after(intent_request, session_attributes, slots)]
                 ELSE IF all_slots_given(location, checkin_date, nights, room_type)
                 THEN LET price == generate_hotel_price(location, nights, room_type)
                          priced == dict_set(session_attributes, "currentReservationPrice", price)
                      IN  IF Raised(price)
                          THEN [response |-> price,
                                request |-> request_after(intent_request, session_attributes, slot_details)]
                          ELSE [response |-> delegate(dict_set(priced, "currentReservation", reservation),
                                                      slot_details),
                                request |-> request_after(intent_request,
                                               dict_set(priced, "currentReservation", reservation),
                                               slot_details)]
                 ELSE LET unpriced == dict_set(drop_price(session_attributes),
                                               "currentReservation", reservation)
                      IN  [response |-> delegate(unpriced, slot_details),
                           request |-> request_after(intent_request, unpriced, slot_details)]
        ELSE LET confirmed == dict_set(drop_price_and_reservation(session_attributes),
                                       "lastConfirmedReservation", reservation)
             IN  [response |-> close(confirmed, "Fulfilled",
                                     [contentType |-> "PlainText",
                                      content |-> <<"Thanks, I have placed your reservation.   Please let me know if you would like to book a car rental, or another hotel.">>]),
                  request |-> request_after(intent_request, confirmed, slot_details)]

lambda_handler_for_any_intent(ev) == book_hotel(ev)

\* lambda_handler: a request of another intent falls off the end (returns None).
lambda_handler(ev) ==
    IF ev.currentIntent.name = "BookHotel" THEN book_hotel(ev)
    ELSE [response |-> None, request |-> ev]

---------------------------------------------------------------------------
\* The requests the dialog platform sends.

Chicago == PyStr(<<"C","h","i","c","a","g","o">>)
NewYork == PyStr(<<"N","e","w"," ","Y","o","r","k">>)
Atlantis == PyStr(<<"A","t","l","a","n","t","i","s">>)
Queen == PyStr(<<"q","u","e","e","n">>)
King == PyStr(<<"K","i","n","g">>)
Deluxe == PyStr(<<"d","e","l","u","x","e">>)
Suite == PyStr(<<"s","u","i","t","e">>)
EmptyStr == PyStr(<<>>)

Locations == {None, EmptyStr, Chicago, NewYork, Atlantis}

CheckInDates ==
    {None, DateText("junk", 0)}
        \cup {DateText(form, day) : form \in {"Y-m-d", "other"}, day \in 1..(MaxDay + 1)}

NightsGiven == {None, PyInt(0), PyInt(4), PyInt(31), PyStr(<<"4">>)}

RoomTypes == {None, EmptyStr, Queen, Suite}

SlotSets ==
    [Location : Locations, CheckInDate : CheckInDates, Nights : NightsGiven, RoomType : RoomTypes]

\* What an earlier turn may have left in the session.
EarlierReservation ==
    json_dumps([ReservationType |-> "Hotel", Location |-> PyStr(valid_cities[24]),
                RoomType |-> Deluxe, CheckInDate |-> DateText("Y-m-d", 1), Nights |-> PyInt(2)])

EarlierPrice == PyInt(generate_hotel_price(PyStr(valid_cities[24]), PyInt(2), Deluxe).v)

SessionsGiven ==
    {None,
     EmptyDict,
     [k \in {"currentReservationPrice"} |-> EarlierPrice],
     [k \in {"currentReservation", "currentReservationPrice", "lastConfirmedReservation"} |->
        IF k = "currentReservationPrice" THEN EarlierPrice ELSE EarlierReservation],
     [k \in {"lastConfirmedReservation", "userName"} |->
        IF k = "userName" THEN PyStr(<<"J","o","h","n">>) ELSE EarlierReservation]}

InvocationSources == {"DialogCodeHook", "FulfillmentCodeHook"}

Request(source, session, name, slots) ==
    [invocationSource |-> source,
     sessionAttributes |-> session,
     currentIntent |-> [name |-> name, slots |-> slots]]

Requests ==
    {Request(source, session, "BookHotel", slots) :
        source \in InvocationSources, session \in SessionsGiven, slots \in SlotSets}
    \cup
    {Request(source, session, "BookCar", [Location |-> Chicago, CheckInDate |-> None,
                                          Nights |-> None, RoomType |-> None]) :
        source \in InvocationSources, session \in SessionsGiven}

---------------------------------------------------------------------------
\* The turns of a conversation.

Init ==
    /\ today = 1
    /\ event = None
    /\ call = None
    /\ prev = None
    /\ calls = 0

\* One invocation of the Lambda function on request object ev; object tells
\* where the caller took it from: "new", a "copy" of the last request, or the
\* "same" object it handed in the last time.
Handle(ev, object) ==
    LET out == lambda_handler(ev)
    IN  /\ event' = out.request
        /\ call' = [request |-> ev, object |-> object, date |-> today,
                    response |-> out.response]
        /\ prev' = call
        /\ calls' = calls + 1
        /\ UNCHANGED today

\* The platform sends the first request of the conversation.
Invoke ==
    /\ calls = 0
    /\ \E ev \in Requests : Handle(ev, "new")

\* The caller sends a request equal to the one it sent before.
InvokeAgainWithCopy ==
    /\ calls \in 1..(MaxCalls - 1)
    /\ Handle(call.request, "copy")

\* The caller hands the very request object of the last call in again.
InvokeAgainWithSameObject ==
    /\ calls \in 1..(MaxCalls - 1)
    /\ Handle(event, "same")

\* Midnight passes.
NextDay ==
    /\ today < MaxDay
    /\ today' = today + 1
    /\ UNCHANGED <<event, call, prev, calls>>

Next ==
    \/ Invoke
    \/ InvokeAgainWithCopy
    \/ InvokeAgainWithSameObject
    \/ NextDay

Spec == Init /\ [][Next]_vars

---------------------------------------------------------------------------
\* validate_hotel on its own, over a wider range of slot values.

NightsTriedValues ==
    {None, PyStr(<<"4">>), PyStr(<<"3","1">>), PyStr(<<"-","1">>)}
        \cup {PyInt(n) : n \in (0 - 2)..NightsTried}

SlotSetsTried ==
    [Location : {None, EmptyStr, Chicago, Atlantis},
     CheckInDate : CheckInDates \cup {EmptyStr},
     Nights : NightsTriedValues,
     RoomType : RoomTypes \cup {King}]

Validate ==
    \E slots \in SlotSetsTried :
        /\ calls = 0
        /\ call' = [request |-> slots, date |-> today, response |-> validate_hotel(slots)]
        /\ event' = slots
        /\ prev' = None
        /\ calls' = 1
        /\ UNCHANGED today

NextValidate ==
    \/ Validate
    \/ NextDay

SpecValidate == Init /\ [][NextValidate]_vars

---------------------------------------------------------------------------
\* generate_hotel_price on its own.

PriceLocations ==
    {PyStr(valid_cities[i]) : i \in 1..Len(valid_cities)}
        \cup {Chicago, NewYork, Atlantis, EmptyStr}

PriceRoomTypes == {Queen, King, Deluxe, Suite, PyStr(room_types[2])}

Estimate ==
    \E location \in PriceLocations, n \in 0..NightsTried, room_type \in PriceRoomTypes :
        /\ calls = 0
        /\ call' = [request |-> [location |-> location, nights |-> PyInt(n),
                                 room_type |-> room_type],
                    date |-> today,
                    response |-> generate_hotel_price(location, PyInt(n), room_type)]
        /\ event' = None
        /\ prev' = None
        /\ calls' = 1
        /\ UNCHANGED today

NextPrice == Estimate

SpecPrice == Init /\ [][NextPrice]_vars

---------------------------------------------------------------------------
\* What the properties below speak of.

SlotNames == {"Location", "CheckInDate", "Nights", "RoomType"}

\* The state right after a call: nothing happened since (the date is the call's).
JustCalled == call # None /\ call.date = today

IsDirective(r) == "dialogAction" \in DOMAIN r

\* a turn of the BookHotel intent was the last call
HotelTurn == JustCalled /\ "currentIntent" \in DOMAIN call.request
                /\ call.request.currentIntent.name = "BookHotel"

DialogTurn == HotelTurn /\ call.request.invocationSource = "DialogCodeHook"

FulfillmentTurn == HotelTurn /\ call.request.invocationSource # "DialogCodeHook"

SlotsIn == call.request.currentIntent.slots

SessionIn == call.request.sessionAttributes

\* the Reservation snapshot of a slot set, Nights as an integer
SnapshotOf(slots) ==
    json_dumps([ReservationType |-> "Hotel",
                Location |-> slots.Location,
                RoomType |-> slots.RoomType,
                CheckInDate |-> slots.CheckInDate,
                Nights |-> IF slots.Nights = None THEN None ELSE int(slots.Nights)])

\* C1: a fulfillment turn (invocationSource other than "DialogCodeHook"), with
\* any slots and any incoming sessionAttributes, returns Close / "Fulfilled"
\* whose sessionAttributes hold lastConfirmedReservation, the snapshot of the
\* turn's slots, and hold neither currentReservation nor currentReservationPrice.
C1_FulfillmentLeavesOnlyLastConfirmed ==
    FulfillmentTurn =>
        /\ IsDirective(call.response)
        /\ call.response.dialogAction.type = "Close"
        /\ call.response.dialogAction.fulfillmentState = "Fulfilled"
        /\ "lastConfirmedReservation" \in DOMAIN call.response.sessionAttributes
        /\ call.response.sessionAttributes["lastConfirmedReservation"] = SnapshotOf(SlotsIn)
        /\ "currentReservation" \notin DOMAIN call.response.sessionAttributes
        /\ "currentReservationPrice" \notin DOMAIN call.response.sessionAttributes

\* C2: a DialogCodeHook turn whose slots fail validation returns ElicitSlot for
\* the violated slot, with the validation message, and with the incoming slots
\* except that the violated slot is null.
C2_InvalidSlotIsElicitedAndCleared ==
    (DialogTurn /\ ~Raised(validate_hotel(SlotsIn)) /\ ~validate_hotel(SlotsIn).isValid) =>
        LET result == validate_hotel(SlotsIn)
            action == call.response.dialogAction
        IN  /\ IsDirective(call.response)
            /\ action.type = "ElicitSlot"
            /\ action.slotToElicit = result.violatedSlot
            /\ action.message = result.message
            /\ DOMAIN action.slots = DOMAIN SlotsIn
            /\ \A k \in DOMAIN SlotsIn :
                   action.slots[k] = IF k = result.violatedSlot THEN None ELSE SlotsIn[k]

\* C2's case: Nights is rejected and nulled while the other three slots come
\* back as they were sent.
C2_Witness ==
    /\ DialogTurn
    /\ IsDirective(call.response)
    /\ call.response.dialogAction.type = "ElicitSlot"
    /\ call.response.dialogAction.slotToElicit = "Nights"
    /\ SlotsIn.Nights = PyInt(31)
    /\ call.response.dialogAction.slots.Nights = None
    /\ SlotsIn.Location = Chicago
    /\ SlotsIn.RoomType = Suite
    /\ call.response.dialogAction.slots.RoomType = Suite

\* validation passed in the last DialogCodeHook turn
ValidDialogTurn ==
    DialogTurn /\ ~Raised(validate_hotel(SlotsIn)) /\ validate_hotel(SlotsIn).isValid

PriceOut == "currentReservationPrice" \in DOMAIN call.response.sessionAttributes

\* every slot holds a value that is neither null nor the empty string
AllFilled(slots) == \A k \in SlotNames : slots[k] # None /\ slots[k] # EmptyStr

\* C3 as stated: a DialogCodeHook turn that passes validation returns Delegate
\* with the slots unchanged, and currentReservationPrice is in the returned
\* sessionAttributes if and only if all four slots are non-null; it then equals
\* estimate_price(Location, Nights, RoomType).
C3_PriceIffAllSlotsNonNull ==
    ValidDialogTurn =>
        /\ IsDirective(call.response)
        /\ call.response.dialogAction.type = "Delegate"
        /\ call.response.dialogAction.slots = SlotsIn
        /\ PriceOut <=> (\A k \in SlotNames : SlotsIn[k] # None)
        /\ PriceOut =>
              call.response.sessionAttributes["currentReservationPrice"]
                  = generate_hotel_price(SlotsIn.Location, int(SlotsIn.Nights), SlotsIn.RoomType)

\* C3 amended: the same, with "all four slots are non-null and non-empty" in
\* place of "non-null": a slot holding the empty string counts as not given,
\* and the price that came in with the request is removed then too.
C3_PriceIffAllSlotsFilled ==
    ValidDialogTurn =>
        /\ IsDirective(call.response)
        /\ call.response.dialogAction.type = "Delegate"
        /\ call.response.dialogAction.slots = SlotsIn
        /\ PriceOut <=> AllFilled(SlotsIn)
        /\ AllFilled(SlotsIn) =>
              call.response.sessionAttributes["currentReservationPrice"]
                  = generate_hotel_price(SlotsIn.Location, int(SlotsIn.Nights), SlotsIn.RoomType)

\* C3's case: the four slots are filled, the request came in with the price of
\* an earlier reservation, and the Delegate response carries the new price.
C3_Witness ==
    /\ ValidDialogTurn
    /\ AllFilled(SlotsIn)
    /\ SlotsIn.Location = Chicago /\ SlotsIn.Nights = PyStr(<<"4">>) /\ SlotsIn.RoomType = Queen
    /\ SessionIn # None
    /\ "currentReservationPrice" \in DOMAIN SessionIn
    /\ SessionIn["currentReservationPrice"] = EarlierPrice
    /\ call.response.dialogAction.type = "Delegate"
    /\ call.response.sessionAttributes["currentReservationPrice"] = PyInt(956)
    /\ EarlierPrice # PyInt(956)

---------------------------------------------------------------------------
\* Properties of validate_hotel (under SpecValidate call.request is the slot
\* set and call.response what validate_hotel returned or raised).

SlotOrder == <<"Location", "CheckInDate", "Nights", "RoomType">>

Valid == [isValid |-> TRUE]

IsViolation(r, slot) == ~Raised(r) /\ ~r.isValid /\ r.violatedSlot = slot

\* The constraint on one slot value as the Validator's contract words it:
\* whether a present value breaks it on the given day.
BreaksConstraint(slot, value, day) ==
    CASE slot = "Location" ->
             Truthy(value) /\ ~Occurs(valid_cities, lower(value.v))
      [] slot = "CheckInDate" ->
             Truthy(value)
                 /\ (Raised(dateutil_parse(value)) \/ dateutil_parse(value).v <= day)
      [] slot = "Nights" ->
             value # None /\ ~(int(value).v \in 1..30)
      [] slot = "RoomType" ->
             Truthy(value) /\ ~Occurs(room_types, lower(value.v))

\* C4: validate_hotel checks Location, CheckInDate, Nights, RoomType in this
\* order and returns the first violation: whenever some slot's value breaks its
\* constraint, the result is invalid and names the earliest such slot, whatever
\* the later slots hold; a Location outside the allow-list always gives
\* violatedSlot = "Location".
C4_FirstViolationInFixedOrder ==
    JustCalled =>
        LET slots == call.request
            broken == {i \in 1..4 : BreaksConstraint(SlotOrder[i], slots[SlotOrder[i]], call.date)}
        IN  /\ broken # {} =>
                  IsViolation(call.response,
                              SlotOrder[CHOOSE i \in broken : \A j \in broken : i <= j])
            /\ 1 \in broken => IsViolation(call.response, "Location")

\* the slot set in which only one slot is given
OnlySlot(slot, value) == [k \in SlotNames |-> IF k = slot THEN value ELSE None]

\* C5: a null slot is never validated: validate_hotel never names a null slot
\* as violatedSlot, returns isValid = true when all four slots are null, and
\* returns what checking the non-null slots alone, in order, returns.
C5_NullSlotsAreNotValidated ==
    JustCalled =>
        LET slots == call.request
            given == {i \in 1..4 : slots[SlotOrder[i]] # None}
            failing == {i \in given :
                           validate_hotel(OnlySlot(SlotOrder[i], slots[SlotOrder[i]])) # Valid}
            first == CHOOSE i \in failing : \A j \in failing : i <= j
        IN  /\ (~Raised(call.response) /\ ~call.response.isValid) =>
                  slots[call.response.violatedSlot] # None
            /\ given = {} => call.response = Valid
            /\ call.response =
                  IF failing = {} THEN Valid
                  ELSE validate_hotel(OnlySlot(SlotOrder[first], slots[SlotOrder[first]]))

\* C5's case: Location and Nights are null, the date is a good one, and the
\* room type, the only bad value, is what validate_hotel reports.
C5_Witness ==
    /\ JustCalled
    /\ call.request.Location = None
    /\ call.request.Nights = None
    /\ call.request.CheckInDate = DateText("Y-m-d", MaxDay + 1)
    /\ call.request.RoomType = Suite
    /\ IsViolation(call.response, "RoomType")

---------------------------------------------------------------------------
\* Properties of a turn, continued (under Spec).

\* C7: a present CheckInDate that parses as a date is accepted only when its
\* day is strictly after the current date; one equal to today or in the past
\* yields violatedSlot = "CheckInDate", and the DialogCodeHook turn returns
\* ElicitSlot for CheckInDate.  (Location, which is checked first, is taken to
\* be null or valid.)
C7_SameDayOrPastDateIsElicited ==
    (DialogTurn /\ Truthy(SlotsIn.CheckInDate)
        /\ ~Raised(dateutil_parse(SlotsIn.CheckInDate))
        /\ ~BreaksConstraint("Location", SlotsIn.Location, call.date)) =>
        LET day == dateutil_parse(SlotsIn.CheckInDate).v
        IN  /\ day <= call.date =>
                  /\ IsDirective(call.response)
                  /\ call.response.dialogAction.type = "ElicitSlot"
                  /\ call.response.dialogAction.slotToElicit = "CheckInDate"
            /\ (IsDirective(call.response) /\ call.response.dialogAction.type = "Delegate") =>
                  day > call.date

C10_OneDirectivePerTurn ==
    HotelTurn =>
        LET dialog == call.request.invocationSource = "DialogCodeHook"
            result == validate_hotel(SlotsIn)
            fails == ~Raised(result) /\ ~result.isValid
            passes == ~Raised(result) /\ result.isValid
        IN  /\ IsDirective(call.response)
            /\ call.response.dialogAction.type \in {"ElicitSlot", "Delegate", "Close"}
            /\ call.response.dialogAction.type = "ElicitSlot" <=> (dialog /\ fails)
            /\ call.response.dialogAction.type = "Delegate" <=> (dialog /\ passes)
            /\ call.response.dialogAction.type = "Close" <=> ~dialog

---------------------------------------------------------------------------
\* Properties of generate_hotel_price (under SpecPrice call.request holds the
\* three arguments and call.response the price, or the exception).

IsLetter(c) == Occurs(Alphabet, c) \/ Occurs(Capitals, c)

\* the zero-based place in the alphabet of a letter, whatever its case
AlphabetOffset(c) ==
    (IF Occurs(Alphabet, c) THEN IndexIn(Alphabet, c) ELSE IndexIn(Capitals, c)) - 1

RECURSIVE SumOfOffsets(_)
SumOfOffsets(s) ==
    IF s = <<>> THEN 0 ELSE AlphabetOffset(Head(s)) + SumOfOffsets(Tail(s))

\* queen 0, king 1, deluxe 2, in any case of the letters
RoomIndex(room_type) ==
    CASE lower(room_type.v) = <<"q","u","e","e","n">> -> 0
      [] lower(room_type.v) = <<"k","i","n","g">> -> 1
      [] lower(room_type.v) = <<"d","e","l","u","x","e">> -> 2

\* C8: estimate_price(location, nights, roomType) is
\* nights * (100 + cost_of_living + 100 + room_index), cost_of_living the sum of
\* the alphabet offsets of the letters of the location in lower case and
\* room_index the place of the room type in [queen, king, deluxe];
\* estimate_price("chicago", 4, "queen") is 956.
C8_PriceFormula ==
    JustCalled =>
        LET location == call.request.location
            nights == call.request.nights
            room_type == call.request.room_type
        IN  /\ ((\A i \in 1..Len(location.v) : IsLetter(location.v[i]))
                    /\ Occurs(room_types, lower(room_type.v))) =>
                  call.response =
                      PyInt(nights.v * (100 + SumOfOffsets(location.v)
                                        + 100 + RoomIndex(room_type)))
            /\ (location = PyStr(valid_cities[3]) /\ nights = PyInt(4) /\ room_type = Queen) =>
                  call.response = PyInt(956)

\* C8's case: the price of four nights in a queen room in "chicago".
C8_Witness ==
    /\ JustCalled
    /\ call.request.location = PyStr(<<"c","h","i","c","a","g","o">>)
    /\ call.request.nights = PyInt(4)
    /\ call.request.room_type = Queen
    /\ call.response = PyInt(956)

---------------------------------------------------------------------------
\* The entry router and the handling of dates (under Spec).

\* C11: lambda_handler dispatches on currentIntent.name alone: a "BookHotel"
\* request gets exactly what book_hotel gives for it, a request of any other
\* intent gets nothing (None: no directive and no error), whatever its
\* invocationSource, sessionAttributes or slots.
C11_RouterDispatchesOnIntentName ==
    (JustCalled /\ "currentIntent" \in DOMAIN call.request) =>
        IF call.request.currentIntent.name = "BookHotel"
        THEN call.response = book_hotel(call.request).response
        ELSE call.response = None /\ ~IsDirective(call.response) /\ ~Raised(call.response)

\* C11's case: a DialogCodeHook request of the intent "BookCar", with a
\* session, came back with nothing, and the request object is as it was.
C11_Witness ==
    /\ JustCalled
    /\ "currentIntent" \in DOMAIN call.request
    /\ call.request.currentIntent.name = "BookCar"
    /\ call.request.invocationSource = "DialogCodeHook"
    /\ call.request.sessionAttributes # None
    /\ call.response = None
    /\ event = call.request

\* C12: every present CheckInDate is handled inside validation: validate_hotel
\* returns a ValidationResult and the DialogCodeHook turn returns ElicitSlot
\* or Delegate, whether the text is no date, a date not written YYYY-MM-DD, or
\* a date written YYYY-MM-DD.
C12_EveryDateGetsADirective ==
    (DialogTurn /\ Truthy(SlotsIn.CheckInDate)) =>
        /\ ~Raised(validate_hotel(SlotsIn))
        /\ IsDirective(call.response)
        /\ call.response.dialogAction.type \in {"ElicitSlot", "Delegate"}

---------------------------------------------------------------------------
\* Properties of validate_hotel and generate_hotel_price, continued.

\* C14 (under SpecPrice): a location that passes validation consists of the
\* letters a-z only (in lower case), so each of its characters adds an offset
\* from 0 to 25 to cost_of_living, and cost_of_living is not negative.
C14_ValidatedLocationIsLettersOnly ==
    (JustCalled /\ Truthy(call.request.location) /\ isvalid_city(call.request.location)) =>
        LET name == lower(call.request.location.v)
        IN  /\ \A i \in 1..Len(name) : Occurs(Alphabet, name[i])
            /\ \A i \in 1..Len(name) : (ord(name[i]) - 97) \in 0..25
            /\ cost_of_living(call.request.location) >= 0

\* C15 (under SpecValidate): in every result of validate_hotel, violatedSlot
\* and message are there if and only if isValid is false; an invalid result
\* names one of the four slots and carries a PlainText message.
C15_ViolationFieldsIffInvalid ==
    (JustCalled /\ ~Raised(call.response)) =>
        LET result == call.response
        IN  /\ result.isValid \in BOOLEAN
            /\ result.isValid => DOMAIN result = {"isValid"}
            /\ ~result.isValid =>
                  /\ DOMAIN result = {"isValid", "violatedSlot", "message"}
                  /\ result.violatedSlot \in SlotNames
                  /\ DOMAIN result.message = {"contentType", "content"}
                  /\ result.message.contentType = "PlainText"
                  /\ Len(result.message.content) > 0

\* C15's case: a room type that is not offered gives an invalid result with
\* its slot and its message.
C15_Witness ==
    /\ JustCalled
    /\ call.request.Location = Chicago
    /\ call.request.RoomType = Suite
    /\ IsViolation(call.response, "RoomType")
    /\ call.response.message.contentType = "PlainText"

---------------------------------------------------------------------------
\* The reservation draft kept in the session.

\* C16 (under Spec): every DialogCodeHook turn, ending in ElicitSlot or in
\* Delegate and with whichever slots null, returns sessionAttributes whose
\* currentReservation is the snapshot of the slots that came in (Nights as an
\* integer), in place of any earlier one; in an ElicitSlot response the
\* snapshot still holds the rejected value of the slot returned as null.
C16_EveryDialogTurnReturnsTheSnapshot ==
    DialogTurn =>
        /\ IsDirective(call.response)
        /\ call.response.dialogAction.type \in {"ElicitSlot", "Delegate"}
        /\ "currentReservation" \in DOMAIN call.response.sessionAttributes
        /\ call.response.sessionAttributes["currentReservation"] = SnapshotOf(SlotsIn)
        /\ call.response.dialogAction.type = "ElicitSlot" =>
              LET slot == call.response.dialogAction.slotToElicit
              IN  /\ call.response.dialogAction.slots[slot] = None
                  /\ SlotsIn[slot] # None
                  /\ call.response.sessionAttributes["currentReservation"].v[slot] # None

---------------------------------------------------------------------------
\* Conversations: the platform carries the session from one turn to the next.
\* SpecSession keeps the date fixed.  call has three more fields here:
\* confirmed, the snapshot of the latest fulfillment turn (None before the
\* first one); elicited, the slots elicited in the run of ElicitSlot turns up
\* to this one; edits, the number of turns in which the user changed a slot.

MaxTurns == 6
MaxEdits == 1

UserName == PyStr(<<"J", "o", "h", "n">>)

FirstSessions == {None, EmptyDict, [k \in {"userName"} |-> UserName]}

FirstSlotSets ==
    [Location : {None, Chicago, Atlantis},
     CheckInDate : {None, DateText("Y-m-d", 2), DateText("Y-m-d", 1), DateText("other", 2)},
     Nights : {None, PyInt(4), PyInt(0)},
     RoomType : {None, Queen, Suite}]

\* What the user may say in a later turn, for each slot.
SlotEdits(slot) ==
    CASE slot = "Location" -> {Chicago, Atlantis}
      [] slot = "CheckInDate" -> {DateText("Y-m-d", 2)}
      [] slot = "Nights" -> {PyInt(4)}
      [] slot = "RoomType" -> {Queen, None}

\* The slots the platform holds after the last turn: those of the directive,
\* or those it sent when the directive (Close) carries none.
SlotsHeld ==
    IF "dialogAction" \in DOMAIN call.response /\ "slots" \in DOMAIN call.response.dialogAction
    THEN call.response.dialogAction.slots
    ELSE call.request.currentIntent.slots

\* One turn of a conversation on request ev.
Turn(ev, object, edited) ==
    LET out == lambda_handler(ev)
        closes == "dialogAction" \in DOMAIN out.response
                    /\ out.response.dialogAction.type = "Close"
        elicits == "dialogAction" \in DOMAIN out.response
                    /\ out.response.dialogAction.type = "ElicitSlot"
    IN  /\ event' = out.request
        /\ call' = [request |-> ev, object |-> object, date |-> today,
                    response |-> out.response,
                    confirmed |->
                        IF closes
                        THEN json_dumps([ReservationType |-> "Hotel",
                                         Location |-> ev.currentIntent.slots.Location,
                                         RoomType |-> ev.currentIntent.slots.RoomType,
                                         CheckInDate |-> ev.currentIntent.slots.CheckInDate,
                                         Nights |-> safe_int(ev.currentIntent.slots.Nights)])
                        ELSE IF calls = 0 THEN None ELSE call.confirmed,
                    elicited |->
                        (IF object = "elicit fed back" THEN call.elicited ELSE <<>>)
                            \o (IF elicits THEN <<out.response.dialogAction.slotToElicit>>
                                ELSE <<>>),
                    edits |-> (IF calls = 0 THEN 0 ELSE call.edits)
                                + (IF edited THEN 1 ELSE 0)]
        /\ prev' = call
        /\ calls' = calls + 1
        /\ UNCHANGED today

\* The first turn of a conversation.
Start ==
    /\ calls = 0
    /\ \E source \in InvocationSources, session \in FirstSessions, slots \in FirstSlotSets :
          Turn(Request(source, session, "BookHotel", slots), "first", FALSE)

\* The user changes one slot; the session is the one the last turn returned.
NextTurn ==
    /\ calls \in 1..(MaxTurns - 1)
    /\ call.edits < MaxEdits
    /\ "dialogAction" \in DOMAIN call.response
    /\ \E source \in InvocationSources, slot \in DOMAIN SlotsHeld :
          \E value \in SlotEdits(slot) :
              Turn(Request(source, call.response.sessionAttributes, "BookHotel",
                           [SlotsHeld EXCEPT ![slot] = value]),
                   "next", TRUE)

\* The slots and the session of an ElicitSlot response come back unchanged.
FeedBackElicit ==
    /\ calls \in 1..(MaxTurns - 1)
    /\ "dialogAction" \in DOMAIN call.response
    /\ call.response.dialogAction.type = "ElicitSlot"
    /\ Turn(Request("DialogCodeHook", call.response.sessionAttributes, "BookHotel",
                    call.response.dialogAction.slots),
            "elicit fed back", FALSE)

\* The slots and the session of a Delegate response come back unchanged.
FeedBackDelegate ==
    /\ calls \in 1..(MaxTurns - 1)
    /\ "dialogAction" \in DOMAIN call.response
    /\ call.response.dialogAction.type = "Delegate"
    /\ call.object # "delegate fed back"
    /\ Turn(Request("DialogCodeHook", call.response.sessionAttributes, "BookHotel",
                    call.response.dialogAction.slots),
            "delegate fed back", FALSE)

NextSession ==
    \/ Start
    \/ NextTurn
    \/ FeedBackElicit
    \/ FeedBackDelegate

SpecSession == Init /\ [][NextSession]_vars

ReservedKeys == {"currentReservation", "currentReservationPrice", "lastConfirmedReservation"}

\* The session as the turn found it and as the turn left it: in the directive,
\* or, when the handler raised, in the dictionary of the request object.
SessionBefore == IF SessionIn = None THEN EmptyDict ELSE SessionIn

SessionAfter ==
    IF IsDirective(call.response) THEN call.response.sessionAttributes
    ELSE IF event.sessionAttributes # None THEN event.sessionAttributes
    ELSE SessionBefore

\* C13 (under SpecSession): with the session carried from turn to turn, a
\* DialogCodeHook turn never returns a stale price: where an ElicitSlot or
\* Delegate response holds currentReservationPrice, all four slots of that
\* response are non-null and the price is the estimate for them; where a slot
\* of the response is null, the key is absent.
C13_ReturnedPriceIsNeverStale ==
    (DialogTurn /\ IsDirective(call.response)) =>
        LET session == call.response.sessionAttributes
            slots == call.response.dialogAction.slots
        IN  /\ "currentReservationPrice" \in DOMAIN session =>
                  /\ \A slot \in SlotNames : slots[slot] # None
                  /\ session["currentReservationPrice"]
                        = generate_hotel_price(slots.Location, safe_int(slots.Nights),
                                               slots.RoomType)
            /\ (\E slot \in SlotNames : slots[slot] = None) =>
                  "currentReservationPrice" \notin DOMAIN session

\* C17 (under SpecSession): a DialogCodeHook turn leaves
\* lastConfirmedReservation as it found it (there or not, and its value); no
\* turn touches a key other than the three reserved ones; so
\* lastConfirmedReservation is always the snapshot of the latest fulfillment
\* turn, and is absent while there was none.
C17_OnlyReservedKeysChange ==
    HotelTurn =>
        /\ \A key \in (DOMAIN SessionBefore \cup DOMAIN SessionAfter) \ ReservedKeys :
              /\ key \in DOMAIN SessionBefore
              /\ key \in DOMAIN SessionAfter
              /\ SessionAfter[key] = SessionBefore[key]
        /\ DialogTurn =>
              /\ "lastConfirmedReservation" \in DOMAIN SessionAfter
                    <=> "lastConfirmedReservation" \in DOMAIN SessionBefore
              /\ "lastConfirmedReservation" \in DOMAIN SessionAfter =>
                    SessionAfter["lastConfirmedReservation"]
                        = SessionBefore["lastConfirmedReservation"]
        /\ IF call.confirmed = None
           THEN "lastConfirmedReservation" \notin DOMAIN SessionAfter
           ELSE /\ "lastConfirmedReservation" \in DOMAIN SessionAfter
                /\ SessionAfter["lastConfirmedReservation"] = call.confirmed

\* C17's case: the turn after a fulfillment turn is a DialogCodeHook turn on
\* other slots; it returns the confirmed reservation and the user's name as
\* they were, next to a draft that differs from the confirmed reservation.
C17_Witness ==
    /\ DialogTurn
    /\ IsDirective(call.response)
    /\ prev # None
    /\ IsDirective(prev.response)
    /\ prev.response.dialogAction.type = "Close"
    /\ "userName" \in DOMAIN SessionBefore
    /\ SessionAfter["userName"] = UserName
    /\ SessionAfter["lastConfirmedReservation"] = SnapshotOf(prev.request.currentIntent.slots)
    /\ SessionAfter["currentReservation"] # SessionAfter["lastConfirmedReservation"]

\* C18 (under SpecSession): from any slot set, when the slots and the session
\* of each ElicitSlot response come back unchanged, every turn returns
\* ElicitSlot or Delegate; every ElicitSlot turn nulls a slot that was not
\* null, no slot is elicited twice, and Delegate comes after at most 4
\* ElicitSlot turns.
C18_FeedingBackReachesDelegate ==
    (DialogTurn /\ call.object \in {"first", "elicit fed back"}) =>
        /\ IsDirective(call.response)
        /\ call.response.dialogAction.type \in {"ElicitSlot", "Delegate"}
        /\ call.response.dialogAction.type = "ElicitSlot" =>
              LET slot == call.response.dialogAction.slotToElicit
              IN  /\ SlotsIn[slot] # None
                  /\ call.response.dialogAction.slots[slot] = None
                  /\ \A other \in SlotNames \ {slot} :
                        call.response.dialogAction.slots[other] = SlotsIn[other]
        /\ \A i, j \in 1..Len(call.elicited) : i # j => call.elicited[i] # call.elicited[j]
        /\ Len(call.elicited) <= 4

\* C19 (under SpecSession): the slots and the session of a Delegate response,
\* sent back as the next DialogCodeHook request, give a Delegate response with
\* the same slots and the same session.
C19_DelegateIsAFixedPoint ==
    (JustCalled /\ call.object = "delegate fed back") =>
        /\ IsDirective(call.response)
        /\ call.response.dialogAction.type = "Delegate"
        /\ call.response.dialogAction.slots = SlotsIn
        /\ call.response.sessionAttributes = SessionIn
        /\ call.response = prev.response

\* C19's case: a Delegate response with a price came back and was answered
\* with the same price.
C19_Witness ==
    /\ JustCalled
    /\ call.object = "delegate fed back"
    /\ IsDirective(call.response)
    /\ call.response.dialogAction.type = "Delegate"
    /\ "currentReservationPrice" \in DOMAIN SessionIn
    /\ "userName" \in DOMAIN SessionIn
    /\ call.response.sessionAttributes["currentReservationPrice"]
          = SessionIn["currentReservationPrice"]

====
